---- MODULE Spec2Model ----
(***************************************************************************)
(* A model of the Aspects backend: the POST /api/chart handler and the     *)
(* helpers it is built from, as they appear in the repository's two        *)
(* versions of the server:                                                 *)
(*    "server"   src/backend/server.js  (lines 61-248, the chart server)   *)
(*    "part000"  src/unnamed/part_000                                      *)
(*                                                                         *)
(* Representation of JavaScript values.                                    *)
(*  - A string is a sequence of one-character strings.  The alphabet of    *)
(*    the modelled inputs is the digits, "-", ":", " " and the letters     *)
(*    "a", "p", "m"; within this alphabet Number(string) is a signed       *)
(*    decimal integer, 0 for a blank string, and NaN otherwise.            *)
(*  - A number is Fin(n), Inf(1), Inf(-1) or NaN.  Angles (longitudes,     *)
(*    separations, orbs, the orb tolerance) are counted in units of 1/128  *)
(*    degree, which IEEE doubles represent and subtract exactly; values    *)
(*    rounded by toFixed(2) are counted in hundredths of a degree.  Clock  *)
(*    quantities (tzOffsetMinutes, hourUT) are counted in minutes and a    *)
(*    Julian Day in whole days plus minutes (1/1440 day).                  *)
(*  - A request-body field is a JSON value: absent (undefined), null, a    *)
(*    string, or a number (1e999 parses to Infinity).                      *)
(***************************************************************************)
EXTENDS Integers, Sequences, FiniteSets, TLC

VARIABLES
    impl,        \* which version of the server handles the request
    req,         \* the request body: [date, time, tzOffsetMinutes, orb]
    pc,          \* position of the handler / of the function under check
    loc,         \* the handler's locals once the input is parsed
    jdCalls,     \* arguments of every julianDay call made for the request
    queried,     \* the swe.calc_ut calls made, in order: [body, error ("" if none)]
    planets,     \* the longitude map built so far (insertion order)
    aspectCalls, \* number of computeAspects calls made for the request
    res,         \* the response sent (status 0: none yet)
    ephemeris,   \* the longitudes the external provider has for the ten bodies
    args,        \* inputs of the pure function under check
    ret          \* its results

vars == <<impl, req, pc, loc, jdCalls, queried, planets, aspectCalls, res, ephemeris,
          args, ret>>

(* ------------------------------ numbers -------------------------------- *)

Fin(n) == [k |-> "fin", v |-> n]
Inf(s) == [k |-> "inf", v |-> s]
NaN == [k |-> "nan", v |-> 0]

isFinite(x) == x.k = "fin"
isNaN(x) == x.k = "nan"

\* One degree, in the angle unit (1/128 degree).
Degree == 2 ^ 7
Deg(d) == d * Degree

\* Math.abs
Abs(x) == IF x < 0 THEN -x ELSE x

\* The JavaScript remainder x % m (m > 0): truncated, the sign of x.
JsRem(x, m) == IF x >= 0 THEN x % m ELSE -((-x) % m)

\* x.toFixed(2) of an angle x >= 0 in 1/128 degree, as hundredths of a degree.
\* toFixed picks the nearest multiple of 0.01, the larger one on an exact tie
\* (every multiple of 1/128 is exact in a double).
toFixed2(u) == (u * 200 + Degree) \div (2 * Degree)

(* ------------------------------ strings -------------------------------- *)

Digits == {"0", "1", "2", "3", "4", "5", "6", "7", "8", "9"}
DigitChars == <<"0", "1", "2", "3", "4", "5", "6", "7", "8", "9">>
DigitVal(c) == (CHOOSE i \in 1..10 : DigitChars[i] = c) - 1

IsDigits(s) == Len(s) > 0 /\ \A i \in 1..Len(s) : s[i] \in Digits

RECURSIVE DecVal(_)
DecVal(s) == IF s = <<>> THEN 0
             ELSE DecVal(SubSeq(s, 1, Len(s) - 1)) * 10 + DigitVal(s[Len(s)])

RECURSIVE TrimStart(_)
TrimStart(s) == IF s # <<>> /\ s[1] = " " THEN TrimStart(Tail(s)) ELSE s

RECURSIVE TrimEnd(_)
TrimEnd(s) == IF s # <<>> /\ s[Len(s)] = " "
              THEN TrimEnd(SubSeq(s, 1, Len(s) - 1)) ELSE s

\* String.prototype.trim
trim(s) == TrimEnd(TrimStart(s))

\* String.prototype.split(sep), sep one character.
RECURSIVE split(_, _)
split(s, sep) ==
    IF \E i \in 1..Len(s) : s[i] = sep
    THEN LET i == CHOOSE j \in 1..Len(s) :
                      s[j] = sep /\ \A h \in 1..(j - 1) : s[h] # sep
         IN <<SubSeq(s, 1, i - 1)>> \o split(SubSeq(s, i + 1, Len(s)), sep)
    ELSE <<s>>

\* String.prototype.padStart(2, "0")
padStart2(s) == IF Len(s) < 2 THEN <<"0">> \o s ELSE s

\* Number(s) of a string s.
StringToNumber(s) ==
    LET t == trim(s) IN
    IF t = <<>> THEN Fin(0)
    ELSE IF IsDigits(t) THEN Fin(DecVal(t))
    ELSE IF t[1] = "-" /\ IsDigits(Tail(t)) THEN Fin(-DecVal(Tail(t)))
    ELSE NaN

(* ---------------------------- JSON values ------------------------------ *)

Undefined == [t |-> "undefined"]
Null == [t |-> "null"]
JStr(s) == [t |-> "string", s |-> s]
JNum(x) == [t |-> "number", num |-> x]

\* v ?? alt
Coalesce(v, alt) == IF v.t \in {"undefined", "null"} THEN alt ELSE v

\* String(v) of a string or an absent value already coalesced to a string.
String(v) == v.s

\* Number(v); a numeral in a string counts `unit` model units per 1.
Number(v, unit) ==
    CASE v.t = "undefined" -> NaN
      [] v.t = "null"      -> Fin(0)
      [] v.t = "number"    -> v.num
      [] v.t = "string"    ->
            LET x == StringToNumber(v.s)
            IN IF x.k = "fin" THEN Fin(x.v * unit) ELSE x

\* JavaScript truthiness of a request field.
Truthy(v) ==
    CASE v.t = "undefined" -> FALSE
      [] v.t = "null"      -> FALSE
      [] v.t = "string"    -> v.s # <<>>
      [] v.t = "number"    -> ~(v.num.k = "nan" \/ (v.num.k = "fin" /\ v.num.v = 0))

(* ------------------------------ AngleMath ------------------------------ *)

\* norm360 without the adjustment of a negative remainder
norm360_NoWrap(x) == JsRem(x, Deg(360))

norm360(x) ==
    LET v == JsRem(x, Deg(360))
    IN IF v < 0 THEN v + Deg(360) ELSE v

Min(x, y) == IF x <= y THEN x ELSE y

\* server.js
minSeparation(a, b) ==
    LET d == Abs(norm360(a) - norm360(b))
    IN Min(d, Deg(360) - d)

\* part_000
angleDiff(a, b) ==
    LET d == Abs(norm360(a) - norm360(b))
    IN IF d > Deg(180) THEN Deg(360) - d ELSE d

Separation(i, a, b) == IF i = "server" THEN minSeparation(a, b) ELSE angleDiff(a, b)

(* ---------------------------- TimeConverter ---------------------------- *)

MinutesPerDay == 24 * 60

\* DayNumber with the January/February shift applied to January alone
DayNumber_ShiftJanuaryOnly(year, month, day) ==
    LET Y == IF month < 2 THEN year - 1 ELSE year
        M == IF month < 2 THEN month + 12 ELSE month
        A == Y \div 100
        B == 2 - A + (A \div 4)
    IN ((36525 * (Y + 4716)) \div 100) + ((306001 * (M + 1)) \div 10000) + day + B

\* The whole-day part of julianDay:
\* floor(365.25*(Y+4716)) + floor(30.6001*(M+1)) + day + B, after the
\* January/February shift.
DayNumber(year, month, day) ==
    LET Y == IF month <= 2 THEN year - 1 ELSE year
        M == IF month <= 2 THEN month + 12 ELSE month
        A == Y \div 100
        B == 2 - A + (A \div 4)
    IN ((36525 * (Y + 4716)) \div 100) + ((306001 * (M + 1)) \div 10000) + day + B

\* A finite Julian Day: `day` whole days and `min` minutes, 0 <= min < 1440.
JD(day, min) == [k |-> "fin", day |-> day, min |-> min]

\* julianDay(year, month, day, hourUT): hourUT in minutes; - 1524.5 days is
\* - 1524 days - 720 minutes.  An infinite hourUT gives the infinite Julian
\* Day of the same sign.
julianDay(year, month, day, hourUT) ==
    IF hourUT.k = "inf" THEN Inf(hourUT.v)
    ELSE LET t == hourUT.v - 720
         IN JD(DayNumber(year, month, day) - 1524 + (t \div MinutesPerDay),
               t % MinutesPerDay)

(* ------------------------- input parsing (server.js) ------------------- *)

NoDate == [ok |-> FALSE, Y |-> 0, M |-> 0, D |-> 0]

\* parseDate: String(dateStr ?? "") against /^(\d{4})-(\d{2})-(\d{2})$/.
parseDate(dateStr) ==
    LET s == String(Coalesce(dateStr, JStr(<<>>)))
    IN IF /\ Len(s) = 10
          /\ \A i \in {1, 2, 3, 4, 6, 7, 9, 10} : s[i] \in Digits
          /\ s[5] = "-"
          /\ s[8] = "-"
       THEN [ok |-> TRUE,
             Y |-> DecVal(SubSeq(s, 1, 4)),
             M |-> DecVal(SubSeq(s, 6, 7)),
             D |-> DecVal(SubSeq(s, 9, 10))]
       ELSE NoDate

\* The length of the hour matched by /^(\d{1,2}):(\d{2})/ at the start of s
\* (greedy, with backtracking), or 0 when the pattern does not match.
TimeMatch(s) ==
    LET fits(h) == /\ Len(s) >= h + 3
                   /\ \A i \in 1..h : s[i] \in Digits
                   /\ s[h + 1] = ":"
                   /\ s[h + 2] \in Digits
                   /\ s[h + 3] \in Digits
    IN IF fits(2) THEN 2 ELSE IF fits(1) THEN 1 ELSE 0

\* normalizeTimeHHMM: "HH:MM" (a string value) or null.
normalizeTimeHHMM(timeStr) ==
    LET s == String(Coalesce(timeStr, JStr(<<>>)))
        h == TimeMatch(s)
        hh == padStart2(SubSeq(s, 1, h))
        mm == SubSeq(s, h + 2, h + 3)
        hhn == DecVal(hh)
        mmn == DecVal(mm)
    IN IF h = 0 THEN Null
       ELSE IF hhn < 0 \/ hhn > 23 \/ mmn < 0 \/ mmn > 59 THEN Null
       ELSE JStr(hh \o <<":">> \o mm)

\* toNumber(v, fallback)
toNumber(v, fallback, unit) ==
    LET n == Number(v, unit)
    IN IF isFinite(n) THEN n ELSE Fin(fallback * unit)

(* ------------------------- input parsing (part_000) -------------------- *)

\* Number(parts[i]) where parts[i] is undefined past the end of the array.
PartNumber(parts, i) == IF i <= Len(parts) THEN StringToNumber(parts[i]) ELSE NaN

\* !x of a number
Falsy(x) == x.k = "nan" \/ (x.k = "fin" /\ x.v = 0)

ParseError(msg) ==
    [err |-> msg, Y |-> 0, M |-> 0, D |-> 0, hh |-> 0, mm |-> 0, hasTime |-> FALSE]

\* parseDateTime: err is "" on success, else the message of the Error thrown.
parseDateTime(dateStr, timeStr) ==
    IF ~Truthy(dateStr) THEN ParseError("Missing date (YYYY-MM-DD).")
    ELSE
    LET dp == split(dateStr.s, "-")
        Y == PartNumber(dp, 1)
        M == PartNumber(dp, 2)
        D == PartNumber(dp, 3)
        given == Truthy(timeStr) /\ trim(timeStr.s) # <<>>
        tp == IF given THEN split(timeStr.s, ":") ELSE <<>>
        hh == IF given THEN PartNumber(tp, 1) ELSE Fin(12)
        mm == IF given
              THEN (IF Len(tp) >= 2 THEN StringToNumber(tp[2]) ELSE Fin(0))
              ELSE Fin(0)
    IN IF Falsy(Y) \/ Falsy(M) \/ Falsy(D)
       THEN ParseError("Invalid date format. Use YYYY-MM-DD.")
       ELSE IF isNaN(hh) \/ isNaN(mm)
       THEN ParseError("Invalid time format (HH:MM).")
       ELSE [err |-> "", Y |-> Y.v, M |-> M.v, D |-> D.v,
             hh |-> hh.v, mm |-> mm.v, hasTime |-> given]

(* ------------------------------ AspectMatcher -------------------------- *)

ASPECTS == <<[name |-> "Conjunction", deg |-> 0],
             [name |-> "Sextile", deg |-> 60],
             [name |-> "Square", deg |-> 90],
             [name |-> "Trine", deg |-> 120],
             [name |-> "Opposition", deg |-> 180]>>

NoBest == [found |-> FALSE, aspect |-> "", deg |-> 0, orb |-> 0]

\* off <= orbDeg, orbDeg a number
WithinOrb(off, orbDeg) ==
    CASE orbDeg.k = "fin" -> off <= orbDeg.v
      [] orbDeg.k = "inf" -> orbDeg.v = 1
      [] orbDeg.k = "nan" -> FALSE

\* Closer with <= for <: on a tie the later catalog entry replaces the earlier
Closer_OrEqual(off, best) == ~best.found \/ off <= best.orb

\* if (!best || off < best.orb)
Closer(off, best) == ~best.found \/ off < best.orb

\* The loop over ASPECTS from entry k on: the best catalog entry for `sep`.
RECURSIVE BestFrom(_, _, _, _)
BestFrom(sep, orbDeg, k, best) ==
    IF k > Len(ASPECTS) THEN best
    ELSE LET asp == ASPECTS[k]
             off == Abs(sep - Deg(asp.deg))
             nxt == IF WithinOrb(off, orbDeg) /\ Closer(off, best)
                    THEN [found |-> TRUE, aspect |-> asp.name, deg |-> asp.deg, orb |-> off]
                    ELSE best
         IN BestFrom(sep, orbDeg, k + 1, nxt)

BestAspect(sep, orbDeg) == BestFrom(sep, orbDeg, 1, NoBest)

\* WithinShare with < for <=: a boundary value falls in the upper class
WithinShare_Strict(orb, orbDeg, q) ==
    CASE orbDeg.k = "fin" -> orb * 100 < orbDeg.v * q
      [] orbDeg.k = "inf" -> orbDeg.v = 1
      [] orbDeg.k = "nan" -> FALSE

\* orb <= orbDeg * q / 100, for the factors 0.33 and 0.66
WithinShare(orb, orbDeg, q) ==
    CASE orbDeg.k = "fin" -> orb * 100 <= orbDeg.v * q
      [] orbDeg.k = "inf" -> orbDeg.v = 1
      [] orbDeg.k = "nan" -> FALSE

Intensity(orb, orbDeg) ==
    IF WithinShare(orb, orbDeg, 33) THEN "tight"
    ELSE IF WithinShare(orb, orbDeg, 66) THEN "medium"
    ELSE "wide"

\* The entry pushed for the pair (i, j), i < j, when it has a best aspect.
Entry(ver, pl, orbDeg, i, j) ==
    LET sep == Separation(ver, pl[i].lon, pl[j].lon)
        best == BestAspect(sep, orbDeg)
    IN [a |-> pl[i].name,
        aspect |-> best.aspect,
        b |-> pl[j].name,
        separation |-> toFixed2(sep),
        orb |-> toFixed2(best.orb),
        intensity |-> Intensity(best.orb, orbDeg)]

HasAspect(ver, pl, orbDeg, i, j) ==
    BestAspect(Separation(ver, pl[i].lon, pl[j].lon), orbDeg).found

\* The two nested loops, from the pair (i, j) on: the entries pushed, in order.
RECURSIVE Pairs(_, _, _, _, _)
Pairs(ver, pl, orbDeg, i, j) ==
    IF i > Len(pl) THEN <<>>
    ELSE IF j > Len(pl) THEN Pairs(ver, pl, orbDeg, i + 1, i + 2)
    ELSE (IF HasAspect(ver, pl, orbDeg, i, j)
          THEN <<Entry(ver, pl, orbDeg, i, j)>> ELSE <<>>)
         \o Pairs(ver, pl, orbDeg, i, j + 1)

\* Insert placing x before the elements of equal orb: an unstable sort
RECURSIVE Insert_BeforeEqual(_, _)
Insert_BeforeEqual(s, x) ==
    IF s = <<>> THEN <<x>>
    ELSE IF s[Len(s)].orb - x.orb < 0 THEN Append(s, x)
    ELSE Append(Insert_BeforeEqual(SubSeq(s, 1, Len(s) - 1), x), s[Len(s)])

\* x inserted into the sorted list s after every element whose orb is <= x.orb.
RECURSIVE Insert(_, _)
Insert(s, x) ==
    IF s = <<>> THEN <<x>>
    ELSE IF s[Len(s)].orb - x.orb <= 0 THEN Append(s, x)
    ELSE Append(Insert(SubSeq(s, 1, Len(s) - 1), x), s[Len(s)])

\* out.sort((x, y) => x.orb - y.orb): Array.prototype.sort is stable.
RECURSIVE SortByOrb(_)
SortByOrb(out) ==
    IF out = <<>> THEN <<>>
    ELSE Insert(SortByOrb(SubSeq(out, 1, Len(out) - 1)), out[Len(out)])

\* computeAspects(planets, orbDeg) of version `ver`; planets is the sequence
\* of [name, lon] in Object.keys order.
computeAspects(ver, pl, orbDeg) == SortByOrb(Pairs(ver, pl, orbDeg, 1, 2))

(* ------------------------------ ChartService --------------------------- *)

\* const bodies = [...]: the canonical body list.
Bodies == <<"Sun", "Moon", "Mercury", "Venus", "Mars",
            "Jupiter", "Saturn", "Uranus", "Neptune", "Pluto">>

DefaultTzOffsetMinutes == -300
DefaultOrb == 4

Text(str) == [t |-> "string", text |-> str]

NoLocals == [Y |-> 0, M |-> 0, D |-> 0, hh |-> 0, mm |-> 0,
             hhmm |-> Null, hourUT |-> Fin(0), jd |-> JD(0, 0)]

NoResponse == [status |-> 0]

\* res.status(400).json({ ok: false, error })
Failure(msg) == [status |-> 400, ok |-> FALSE, error |-> msg]

\* The effective timezone offset of a request (minutes).
\*   server.js: toNumber(req.body?.tzOffsetMinutes, -300)
\*   part_000:  typeof tzOffsetMinutes === "number" ? tzOffsetMinutes : -300
TzOffset(ver, r) ==
    IF ver = "server" THEN toNumber(r.tzOffsetMinutes, DefaultTzOffsetMinutes, 1)
    ELSE IF r.tzOffsetMinutes.t = "number" THEN r.tzOffsetMinutes.num
    ELSE Fin(DefaultTzOffsetMinutes)

\* The effective orb tolerance of a request (1/128 degree).
\*   server.js: toNumber(req.body?.orb, 4)
\*   part_000:  typeof orb === "number" ? orb : 4
OrbTolerance(ver, r) ==
    IF ver = "server" THEN toNumber(r.orb, DefaultOrb, Degree)
    ELSE IF r.orb.t = "number" THEN r.orb.num
    ELSE Fin(Deg(DefaultOrb))

\* hourUT = localHour - tz / 60, in minutes.
HourUT(hh, mm, tz) ==
    IF tz.k = "fin" THEN Fin(hh * 60 + mm - tz.v) ELSE Inf(-tz.v)

\* timeProvided without the trim: a blank string counts as a time
timeProvided_NoTrim(timeStr) == timeStr.t = "string" /\ timeStr.s # <<>>

\* server.js: timeProvided
timeProvided(timeStr) == timeStr.t = "string" /\ trim(timeStr.s) # <<>>

\* server.js, from the start of the handler to the julianDay call.
ParseServer ==
    /\ pc = "start"
    /\ impl = "server"
    /\ LET d == parseDate(req.date) IN
       IF ~d.ok
       THEN /\ res' = Failure("Invalid date. Use YYYY-MM-DD.")
            /\ pc' = "done"
            /\ UNCHANGED <<loc, jdCalls>>
       ELSE LET hhmm == Coalesce(normalizeTimeHHMM(Coalesce(req.time, JStr(<<"1", "2", ":", "0", "0">>))),
                                 JStr(<<"1", "2", ":", "0", "0">>))
                parts == split(hhmm.s, ":")
                hh == StringToNumber(parts[1]).v
                mm == StringToNumber(parts[2]).v
                hourUT == HourUT(hh, mm, TzOffset("server", req))
            IN /\ loc' = [Y |-> d.Y, M |-> d.M, D |-> d.D, hh |-> hh, mm |-> mm,
                          hhmm |-> hhmm, hourUT |-> hourUT,
                          jd |-> julianDay(d.Y, d.M, d.D, hourUT)]
               /\ jdCalls' = Append(jdCalls, [year |-> d.Y, month |-> d.M, day |-> d.D,
                                              hourUT |-> hourUT])
               /\ pc' = "query"
               /\ UNCHANGED res
    /\ UNCHANGED <<impl, req, queried, planets, aspectCalls, ephemeris, args, ret>>

\* part_000, from the start of the handler to the julianDay call.
ParsePart000 ==
    /\ pc = "start"
    /\ impl = "part000"
    /\ LET p == parseDateTime(req.date, req.time) IN
       IF p.err # ""
       THEN /\ res' = Failure(p.err)
            /\ pc' = "done"
            /\ UNCHANGED <<loc, jdCalls>>
       ELSE LET hourUT == HourUT(p.hh, p.mm, TzOffset("part000", req))
            IN /\ loc' = [Y |-> p.Y, M |-> p.M, D |-> p.D, hh |-> p.hh, mm |-> p.mm,
                          hhmm |-> req.time, hourUT |-> hourUT,
                          jd |-> julianDay(p.Y, p.M, p.D, hourUT)]
               /\ jdCalls' = Append(jdCalls, [year |-> p.Y, month |-> p.M, day |-> p.D,
                                              hourUT |-> hourUT])
               /\ pc' = "query"
               /\ UNCHANGED res
    /\ UNCHANGED <<impl, req, queried, planets, aspectCalls, ephemeris, args, ret>>

\* What the external ephemeris provider may hold for the ten bodies, r.data[0]
\* in 1/128 degree (values outside [0, 360) included), and the errors it may
\* report instead.
EphemerisSamples ==
    {<<Deg(15), Deg(75) + 3, Deg(105) + 2, Deg(-285), Deg(195) + 42,
       Deg(375), Deg(135) + 64, Deg(255), Deg(315) - 1, Deg(45) + 100>>,
     <<Deg(0), Deg(0), Deg(90), Deg(180), Deg(270),
       Deg(359) + 127, Deg(-1), Deg(720), Deg(60), Deg(120)>>,
     <<Deg(146) + 40, Deg(291) + 7, Deg(133) + 99, Deg(169) + 12, Deg(172) + 77,
       Deg(96) + 5, Deg(277) + 30, Deg(272) + 1, Deg(279) + 88, Deg(224) + 64>>}
ProviderErrors == {"swe_calc_ut: ephemeris unavailable"}

\* One iteration of the loop over bodies in which swe.calc_ut succeeds.
CalcUtOk ==
    /\ pc = "query"
    /\ LET k == Len(queried) + 1 IN
       /\ queried' = Append(queried, [body |-> Bodies[k], error |-> ""])
       /\ planets' = Append(planets, [name |-> Bodies[k], lon |-> norm360(ephemeris[k])])
       /\ pc' = IF k = Len(Bodies) THEN "assemble" ELSE "query"
    /\ UNCHANGED <<impl, req, loc, jdCalls, aspectCalls, res, ephemeris, args, ret>>

\* CalcUtError with the error swallowed: the loop goes on with longitude 0
CalcUtError_Swallowed ==
    /\ pc = "query"
    /\ \E msg \in ProviderErrors :
          LET k == Len(queried) + 1 IN
          /\ queried' = Append(queried, [body |-> Bodies[k], error |-> msg])
          /\ planets' = Append(planets, [name |-> Bodies[k], lon |-> 0])
          /\ pc' = IF k = Len(Bodies) THEN "assemble" ELSE "query"
    /\ UNCHANGED <<impl, req, loc, jdCalls, aspectCalls, res, ephemeris, args, ret>>

\* One iteration in which swe.calc_ut returns an error: throw, caught by the
\* handler's catch, which answers 400 with the message.
CalcUtError ==
    /\ pc = "query"
    /\ \E msg \in ProviderErrors :
          /\ queried' = Append(queried, [body |-> Bodies[Len(queried) + 1], error |-> msg])
          /\ res' = Failure(msg)
          /\ pc' = "done"
    /\ UNCHANGED <<impl, req, loc, jdCalls, planets, aspectCalls, ephemeris, args, ret>>

\* whether the version at hand counts the request as carrying a time
HasTime(ver, r) ==
    IF ver = "server" THEN timeProvided(r.time)
    ELSE parseDateTime(r.date, r.time).hasTime

LowConfidenceNote(ver) ==
    IF ver = "server"
    THEN Text("No time provided; defaulted to 12:00. Moon/aspects can shift with time.")
    ELSE Text("Time was not provided; Moon/angles would be less reliable. Planet longitudes still compute, but the Moon changes fast.")

\* After the loop: computeAspects and res.json({ ok: true, ... }).
Respond ==
    /\ pc = "assemble"
    /\ LET orb == OrbTolerance(impl, req)
           given == HasTime(impl, req)
       IN /\ aspectCalls' = aspectCalls + 1
          /\ res' = [status |-> 200,
                     ok |-> TRUE,
                     meta |-> [tzOffsetMinutes |-> TzOffset(impl, req),
                               orb |-> orb,
                               confidence |-> IF given THEN "high" ELSE "low",
                               note |-> IF given THEN Null ELSE LowConfidenceNote(impl)],
                     subject |-> [date |-> req.date,
                                  time |-> IF given THEN loc.hhmm ELSE Null],
                     jd |-> loc.jd,
                     planets |-> planets,
                     aspects |-> computeAspects(impl, planets, orb)]
    /\ pc' = "done"
    /\ UNCHANGED <<impl, req, loc, jdCalls, queried, planets, ephemeris, args, ret>>

(* ------------------------------ requests ------------------------------- *)

DateSamples ==
    {Undefined, Null,
     JStr(<<>>),
     JStr(<<"2", "0", "2", "4", "-", "0", "2", "-", "2", "9">>),
     JStr(<<"2", "0", "2", "4", "-", "1", "3", "-", "9", "9">>),
     JStr(<<"2", "0", "2", "4", "-", "1", "-", "5">>),
     JStr(<<"0", "0", "0", "0", "-", "0", "1", "-", "0", "1">>),
     JStr(<<"a", "m", "p", "m">>)}

TimeSamples ==
    {Undefined, Null,
     JStr(<<>>),
     JStr(<<" ">>),
     JStr(<<"0", "8", ":", "5", "8">>),
     JStr(<<"8", ":", "5", "8">>),
     JStr(<<"2", "3", ":", "3", "0">>),
     JStr(<<"2", "5", ":", "9", "9">>),
     JStr(<<"0", "8", ":", "5", "8", "p", "m">>),
     JStr(<<"1", "2">>),
     JStr(<<"a", "m", ":", "p", "m">>)}

TzSamples ==
    {Undefined, Null,
     JNum(Fin(-300)), JNum(Fin(330)),
     JNum(Inf(1)),
     JStr(<<"6", "0">>),
     JStr(<<"a", "m">>)}

OrbSamples ==
    {Undefined, Null,
     JNum(Fin(Deg(4))), JNum(Fin(Deg(1) + 1)),
     JNum(Inf(1)),
     JStr(<<"2">>),
     JStr(<<"a", "m">>)}

Request(d, t, z, o) == [date |-> d, time |-> t, tzOffsetMinutes |-> z, orb |-> o]

GoodDate == JStr(<<"2", "0", "2", "4", "-", "0", "2", "-", "2", "9">>)
GoodTime == JStr(<<"0", "8", ":", "5", "8">>)

\* Every date with every time, and every timezone with every orb.
Requests ==
    {Request(d, t, Undefined, Undefined) : d \in DateSamples, t \in TimeSamples}
    \cup {Request(GoodDate, GoodTime, z, o) : z \in TzSamples, o \in OrbSamples}

NoRequest == Request(Undefined, Undefined, Undefined, Undefined)

(* --------------------------- the chart handler ------------------------- *)

Versions == {"server", "part000"}

Init ==
    /\ impl \in Versions
    /\ req \in Requests
    /\ pc = "start"
    /\ loc = NoLocals
    /\ jdCalls = <<>>
    /\ queried = <<>>
    /\ planets = <<>>
    /\ aspectCalls = 0
    /\ res = NoResponse
    /\ ephemeris \in EphemerisSamples
    /\ args = <<>>
    /\ ret = <<>>

Next == ParseServer \/ ParsePart000 \/ CalcUtOk \/ CalcUtError \/ Respond

Spec == Init /\ [][Next]_vars

(* ======================= claims on the chart handler =================== *)

\* The shape YYYY-MM-DD.
IsDateShape(v) ==
    /\ v.t = "string"
    /\ Len(v.s) = 10
    /\ \A i \in 1..10 : IF i \in {5, 8} THEN v.s[i] = "-" ELSE v.s[i] \in Digits

\* A time counts as omitted when the field is absent, null or blank.
TimeOmitted(v) == v.t \in {"undefined", "null"} \/ (v.t = "string" /\ trim(v.s) = <<>>)
TimeSupplied(v) == v.t = "string" /\ trim(v.s) # <<>>

\* A valid clock time: H:MM or HH:MM with hour 0..23 and minute 0..59.
IsClockTime(v) ==
    /\ v.t = "string"
    /\ \E h \in {1, 2} :
          /\ Len(v.s) = h + 3
          /\ \A i \in 1..(h + 3) : IF i = h + 1 THEN v.s[i] = ":" ELSE v.s[i] \in Digits
          /\ DecVal(SubSeq(v.s, 1, h)) <= 23
          /\ DecVal(SubSeq(v.s, h + 2, h + 3)) <= 59

\* A numeric field that is present but is no finite number.
NotFiniteNumber(v) ==
    \/ v.t = "number" /\ v.num.k # "fin"
    \/ v.t = "string" /\ StringToNumber(v.s).k # "fin"

MalformedRequest(r) ==
    \/ ~IsDateShape(r.date)
    \/ TimeSupplied(r.time) /\ ~IsClockTime(r.time)
    \/ NotFiniteNumber(r.tzOffsetMinutes)
    \/ NotFiniteNumber(r.orb)

Rejected == pc = "done" /\ res.ok = FALSE /\ res.error # ""

\* C1: a request with a malformed date, a present but malformed time, or a
\* present but non-finite tzOffsetMinutes or orb is answered ok:false with an
\* error, and neither julianDay nor the ephemeris provider is called for it.
C1_ValidationFailsFast ==
    MalformedRequest(req) =>
        /\ jdCalls = <<>>
        /\ queried = <<>>
        /\ pc = "done" => Rejected

\* C2: when the provider returns an error for the k-th body, the response is
\* ok:false with the provider's message, holds no planets and no aspects, no
\* body after the k-th is queried, and computeAspects is never called.
C2_ProviderErrorAborts ==
    /\ \A k \in 1..Len(queried) : queried[k].body = Bodies[k]
    /\ \A k \in 1..Len(queried) :
          queried[k].error # "" =>
              /\ k = Len(queried)
              /\ pc = "done"
              /\ res.ok = FALSE
              /\ res.error = queried[k].error
              /\ "planets" \notin DOMAIN res
              /\ "aspects" \notin DOMAIN res
              /\ aspectCalls = 0

C2_Witness ==
    /\ pc = "done"
    /\ Len(queried) = Len(Bodies)
    /\ queried[Len(Bodies)].error # ""
    /\ Len(planets) = Len(Bodies) - 1

\* C3: a successful response to a request that omits the time has confidence
\* "low" and a non-null note; to one that supplies a time, confidence "high"
\* and a null note.
C3_ConfidenceFollowsTime ==
    (pc = "done" /\ res.ok) =>
        /\ TimeOmitted(req.time) =>
              res.meta.confidence = "low" /\ res.meta.note # Null
        /\ TimeSupplied(req.time) =>
              res.meta.confidence = "high" /\ res.meta.note = Null

C3_Witness ==
    /\ pc = "done"
    /\ res.ok
    /\ req.time = JStr(<<" ">>)
    /\ res.meta.confidence = "low"

\* A date of the shape YYYY-MM-DD whose month or day is out of range.
DateOutOfRange(v) ==
    /\ IsDateShape(v)
    /\ \/ DecVal(SubSeq(v.s, 6, 7)) \notin 1..12
       \/ DecVal(SubSeq(v.s, 9, 10)) \notin 1..31

\* A time of the shape H:MM or HH:MM whose hour or minute is out of range.
TimeOutOfRange(v) ==
    /\ v.t = "string"
    /\ \E h \in {1, 2} :
          /\ Len(v.s) = h + 3
          /\ \A i \in 1..(h + 3) : IF i = h + 1 THEN v.s[i] = ":" ELSE v.s[i] \in Digits
          /\ \/ DecVal(SubSeq(v.s, 1, h)) > 23
             \/ DecVal(SubSeq(v.s, h + 2, h + 3)) > 59

\* C8: whenever julianDay is called, month is in 1..12, day in 1..31, the local
\* hour in 0..23 and the local minute in 0..59; a request whose date or time
\* fields fall outside these ranges is rejected with an error instead.
C8_JulianDayArgumentsInRange ==
    /\ \A i \in 1..Len(jdCalls) :
          /\ jdCalls[i].month \in 1..12
          /\ jdCalls[i].day \in 1..31
          /\ loc.hh \in 0..23
          /\ loc.mm \in 0..59
    /\ (DateOutOfRange(req.date) \/ TimeOutOfRange(req.time)) =>
          (jdCalls = <<>> /\ (pc = "done" => Rejected))

(* ===================== computeAspects as a pure function =============== *)

MaxBodies == 3

LongitudeSamples ==
    {0, Deg(60) + 3, Deg(90) + 2, Deg(60) + 33, Deg(90) + 66, Deg(61) + 42,
     Deg(-285), Deg(350), Deg(180)}

ToleranceSamples == {Fin(Deg(4)), Fin(100), Fin(Deg(15)), Fin(0), Fin(-Deg(1)), Inf(1)}

\* The longitude maps with n bodies, named as the first n canonical bodies.
Maps(n) ==
    {[i \in 1..n |-> [name |-> Bodies[i], lon |-> f[i]]] : f \in [1..n -> LongitudeSamples]}

\* The handler's variables, idle.
HandlerIdle ==
    /\ req = NoRequest
    /\ loc = NoLocals
    /\ jdCalls = <<>>
    /\ queried = <<>>
    /\ planets = <<>>
    /\ aspectCalls = 0
    /\ res = NoResponse
    /\ ephemeris = <<>>

HandlerUnchanged ==
    UNCHANGED <<impl, req, loc, jdCalls, queried, planets, aspectCalls, res, ephemeris>>

InitAspects ==
    /\ impl \in Versions
    /\ HandlerIdle
    /\ pc = "call"
    /\ \E n \in 1..MaxBodies : \E m \in Maps(n) : \E t \in ToleranceSamples :
          args = [planets |-> m, orbDeg |-> t]
    /\ ret = <<>>

CallComputeAspects ==
    /\ pc = "call"
    /\ ret' = computeAspects(impl, args.planets, args.orbDeg)
    /\ pc' = "return"
    /\ UNCHANGED args
    /\ HandlerUnchanged

NextAspects == CallComputeAspects

SpecAspects == InitAspects /\ [][NextAspects]_vars

(* ======================== claims on computeAspects ===================== *)

\* The shorter arc between two longitudes, by the mathematical modulus.
ShortArc(a, b) ==
    LET d == (a - b) % Deg(360)
    IN IF d <= Deg(180) THEN d ELSE Deg(360) - d

\* The deviation of a separation from catalog entry k.
Deviation(sep, k) == Abs(sep - Deg(ASPECTS[k].deg))

Within(off, t) == IF t.k = "fin" THEN off <= t.v ELSE t.k = "inf" /\ t.v = 1

\* The separation of bodies i and j of the argument map.
ArgSep(i, j) == ShortArc(args.planets[i].lon, args.planets[j].lon)

Qualifies(i, j) == \E k \in 1..Len(ASPECTS) : Within(Deviation(ArgSep(i, j), k), args.orbDeg)

\* The catalog entry closest to the separation, the earlier one on a tie.
Closest(sep) ==
    CHOOSE k \in 1..Len(ASPECTS) :
        \A h \in 1..Len(ASPECTS) :
            \/ Deviation(sep, k) < Deviation(sep, h)
            \/ Deviation(sep, k) = Deviation(sep, h) /\ k <= h

\* The position of a body in the argument map.
BodyIndex(name) == CHOOSE i \in 1..Len(args.planets) : args.planets[i].name = name

\* The unrounded orb of a returned match.
TrueOrb(e) ==
    LET sep == ArgSep(BodyIndex(e.a), BodyIndex(e.b))
    IN Deviation(sep, Closest(sep))

\* The returned matches for the pair (i, j).
MatchesOf(i, j) ==
    {p \in 1..Len(ret) : ret[p].a = args.planets[i].name /\ ret[p].b = args.planets[j].name}

Returned == pc = "return"

\* C4: computeAspects returns exactly one match for each unordered pair of
\* distinct bodies with a catalog aspect within the orb and none for any other
\* pair; the matched aspect is the catalog entry of smallest deviation, the
\* earlier one in catalog order when two are equally close.
C4_OneClosestMatchPerPair ==
    Returned =>
        /\ \A i, j \in 1..Len(args.planets) :
              /\ i < j /\ Qualifies(i, j) => Cardinality(MatchesOf(i, j)) = 1
              /\ ~(i < j /\ Qualifies(i, j)) => MatchesOf(i, j) = {}
        /\ \A p \in 1..Len(ret) :
              /\ \E i, j \in 1..Len(args.planets) : p \in MatchesOf(i, j)
              /\ ret[p].aspect =
                    ASPECTS[Closest(ArgSep(BodyIndex(ret[p].a), BodyIndex(ret[p].b)))].name

\* a pair exactly between Sextile and Square, both within the orb: Sextile wins
C4_Witness ==
    /\ Returned
    /\ \E p \in 1..Len(ret) :
          /\ ArgSep(BodyIndex(ret[p].a), BodyIndex(ret[p].b)) = Deg(75)
          /\ args.orbDeg = Fin(Deg(15))
          /\ ret[p].aspect = "Sextile"
    /\ \E i, j \in 1..Len(args.planets) : i < j /\ ~Qualifies(i, j)

\* C5 as stated: with tolerance T and unrounded orb o, intensity is "tight" when
\* o <= T/3, "medium" when T/3 < o <= 2T/3 and "wide" when o > 2T/3.
C5_IntensityByThirds ==
    (Returned /\ args.orbDeg.k = "fin") =>
        \A p \in 1..Len(ret) :
            LET o == TrueOrb(ret[p])
                T == args.orbDeg.v
            IN ret[p].intensity =
                  IF 3 * o <= T THEN "tight"
                  ELSE IF 3 * o <= 2 * T THEN "medium"
                  ELSE "wide"

\* C5 as amended: intensity is "tight" when o <= 0.33 T, "medium" when
\* 0.33 T < o <= 0.66 T and "wide" when o > 0.66 T, the boundary values
\* o = 0.33 T and o = 0.66 T falling in the lower class.
C5_IntensityByHundredths ==
    (Returned /\ args.orbDeg.k = "fin") =>
        \A p \in 1..Len(ret) :
            LET o == TrueOrb(ret[p])
                T == args.orbDeg.v
            IN ret[p].intensity =
                  IF 100 * o <= 33 * T THEN "tight"
                  ELSE IF 100 * o <= 66 * T THEN "medium"
                  ELSE "wide"

\* both boundary values occur in one result, each in its lower class
C5_Witness ==
    /\ Returned
    /\ args.orbDeg = Fin(100)
    /\ \E p \in 1..Len(ret) : TrueOrb(ret[p]) = 33 /\ ret[p].intensity = "tight"
    /\ \E p \in 1..Len(ret) : TrueOrb(ret[p]) = 66 /\ ret[p].intensity = "medium"

\* The place of a returned match in the enumeration of pairs (i, then j).
PairRank(e) == BodyIndex(e.a) * (Len(args.planets) + 1) + BodyIndex(e.b)

\* C6: the returned list is sorted by ascending orb (the orb of the returned
\* matches), and two matches of equal orb appear in pair-enumeration order.
C6_SortedByOrbStable ==
    Returned =>
        \A p, q \in 1..Len(ret) :
            p < q =>
                /\ ret[p].orb <= ret[q].orb
                /\ ret[p].orb = ret[q].orb => PairRank(ret[p]) < PairRank(ret[q])

\* a result the sort reordered, holding two matches of equal orb
C6_Witness ==
    /\ Returned
    /\ \E p, q \in 1..Len(ret) : p < q /\ ret[p].orb = ret[q].orb
    /\ \E p, q \in 1..Len(ret) : p < q /\ PairRank(ret[p]) > PairRank(ret[q])

\* C9: the final ordering is made on the unrounded orb: two matches whose
\* unrounded orbs differ are ordered by their unrounded orbs.
C9_OrderedByUnroundedOrb ==
    Returned =>
        \A p, q \in 1..Len(ret) : p < q => TrueOrb(ret[p]) <= TrueOrb(ret[q])

(* ==================== minimal separation as a pure function ============ *)

MaxTurns == 2

\* Multiples of 10 degrees up to MaxTurns full turns either way, and angles
\* one unit off the wrap-around points.
AngleSamples ==
    {Deg(10) * k : k \in (-36 * MaxTurns)..(36 * MaxTurns)}
    \cup {1, -1, Deg(180) + 1, Deg(180) - 1, Deg(360) - 1, -Deg(360) - 1, Deg(540) + 1}

InitSeparation ==
    /\ impl \in Versions
    /\ HandlerIdle
    /\ pc = "call"
    /\ \E a, b \in AngleSamples : args = [a |-> a, b |-> b]
    /\ ret = <<>>

CallSeparation ==
    /\ pc = "call"
    /\ ret' = [ab |-> Separation(impl, args.a, args.b),
               ba |-> Separation(impl, args.b, args.a)]
    /\ pc' = "return"
    /\ UNCHANGED args
    /\ HandlerUnchanged

NextSeparation == CallSeparation

SpecSeparation == InitSeparation /\ [][NextSeparation]_vars

\* C7: for all angles a and b, negative ones and ones beyond a full turn
\* included, the minimal separation of (a, b) equals that of (b, a) and lies in
\* [0, 180]; the minimal separation of 10 and 350 is 20.
C7_SeparationSymmetricInRange ==
    Returned =>
        /\ ret.ab = ret.ba
        /\ 0 <= ret.ab /\ ret.ab <= Deg(180)
        /\ (args.a = Deg(10) /\ args.b = Deg(350)) => ret.ab = Deg(20)

\* -350 and 710 are 10 and 350 after normalisation
C7_Witness ==
    /\ Returned
    /\ args.a = Deg(-350)
    /\ args.b = Deg(710)
    /\ ret.ab = Deg(20)
    /\ ret.ba = Deg(20)

(* ========================= julianDay as a pure function ================ *)

YearSpan == 4

YearSamples == {c + d : c \in {1900, 2000, 2100}, d \in (-YearSpan)..YearSpan}

\* UT hours of the day, in minutes
HourSamples == {0, 1, 538, 720, 1439}

\* The Gregorian calendar.
IsLeap(y) == (y % 4 = 0 /\ y % 100 # 0) \/ y % 400 = 0

DaysIn(y, m) ==
    IF m = 2 THEN (IF IsLeap(y) THEN 29 ELSE 28)
    ELSE IF m \in {4, 6, 9, 11} THEN 30
    ELSE 31

NextDay(y, m, d) ==
    IF d < DaysIn(y, m) THEN [Y |-> y, M |-> m, D |-> d + 1]
    ELSE IF m < 12 THEN [Y |-> y, M |-> m + 1, D |-> 1]
    ELSE [Y |-> y + 1, M |-> 1, D |-> 1]

PrevDay(y, m, d) ==
    IF d > 1 THEN [Y |-> y, M |-> m, D |-> d - 1]
    ELSE IF m > 1 THEN [Y |-> y, M |-> m - 1, D |-> DaysIn(y, m - 1)]
    ELSE [Y |-> y - 1, M |-> 12, D |-> 31]

InitJulianDay ==
    /\ impl = "server"
    /\ HandlerIdle
    /\ pc = "call"
    /\ \E y \in YearSamples : \E m \in 1..12 : \E d \in 1..DaysIn(y, m) :
       \E h \in HourSamples :
          args = [Y |-> y, M |-> m, D |-> d, h |-> h]
    /\ ret = <<>>

CallJulianDay ==
    /\ pc = "call"
    /\ LET n == NextDay(args.Y, args.M, args.D)
           p == PrevDay(args.Y, args.M, args.D)
       IN ret' = [later |-> julianDay(args.Y, args.M, args.D, Fin(args.h + MinutesPerDay)),
                  next |-> julianDay(n.Y, n.M, n.D, Fin(args.h)),
                  earlier |-> julianDay(args.Y, args.M, args.D, Fin(args.h - MinutesPerDay)),
                  prev |-> julianDay(p.Y, p.M, p.D, Fin(args.h))]
    /\ pc' = "return"
    /\ UNCHANGED args
    /\ HandlerUnchanged

NextJulianDay == CallJulianDay

SpecJulianDay == InitJulianDay /\ [][NextJulianDay]_vars

\* C10: for every valid Gregorian date (Y, M, D) and hour h, julianDay at hour
\* h + 24 is julianDay of the next calendar day at hour h, and julianDay at
\* hour h - 24 is julianDay of the previous calendar day at hour h, across
\* month ends, year ends and 29 February included.
C10_HourOverflowIsNextDay ==
    Returned => (ret.later = ret.next /\ ret.earlier = ret.prev)

\* 29 February of a leap year, the hour running over into 1 March
C10_Witness ==
    /\ Returned
    /\ args.Y = 2000 /\ args.M = 2 /\ args.D = 29
    /\ args.h = 1439
    /\ ret.later = ret.next
    /\ ret.later.min = 719

====
